---- MODULE Spec2Model ----
(***************************************************************************)
(* The chat room server: main's accept loop, one handleConn goroutine per  *)
(* connection, one sendMessage goroutine per user, and the broadcaster     *)
(* goroutine that owns the users map.                                      *)
(*                                                                         *)
(* A connection is named by the order in which main accepted it (1, 2, ..);*)
(* that index also stands for the *User pointer handleConn builds for it,  *)
(* which is what the users map is keyed by.  user.ID is the separate       *)
(* number genUserID returned.                                              *)
(*                                                                         *)
(* A message is the tuple <<kind, id, text>> of the parts the code joins   *)
(* into one string (strconv.Itoa is injective, and the four formats cannot *)
(* collide: they differ in their first characters):                        *)
(*   <<"welcome", id, 0>>  "欢迎你的到来：" + Itoa(id)                     *)
(*   <<"enter", id, 0>>    "user:'" + Itoa(id) + "' has enter"             *)
(*   <<"line", id, k>>     Itoa(id) + ": " + (the k-th line the peer sent) *)
(*   <<"left", id, 0>>     "user:'" + Itoa(id) + "' has left"              *)
(***************************************************************************)
EXTENDS Naturals, Sequences, FiniteSets

\* Clients that connect in a run with several clients.
MaxConns == 2
\* Lines the clients of such a run send, all together.
MaxLines == 1
\* Lines the client of a run with a single client sends: enough to fill
\* its own user.MessageChannel and messageChannel at the same time, with the
\* msg broadcaster holds and one more line in handleConn's hand.
MaxLinesAlone == 17
\* Lines the talkative client of a run with a latecomer sends: with its
\* welcome and its arrival notice they fill its user.MessageChannel and
\* leave broadcaster blocked with the last line, the latecomer's arrival
\* notice waiting behind it.
MaxLinesCrowd == 7

\* make(chan string, 8): the buffer of messageChannel.
MessageChannelCap == 8
\* make(chan string, 8): the buffer of each user.MessageChannel.
UserChannelCap == 8

Conns == 1..MaxConns

RECURSIVE Total(_, _)
Total(f, n) == IF n = 0 THEN 0 ELSE f[n] + Total(f, n - 1)

VARIABLES
    clients,         \* the clients that connect in this run (the environment's)
    peers,           \* what the peers of those clients do in this run: the
                     \* lines they send, all together (lines), who sends them
                     \* (talk), who never ends its stream (stay), who
                     \* connects once the lines are sent (late)
    nextId,          \* var nextId int
    idCounter,       \* var idCounter sync.Mutex: 0 free, else the connection holding it
    pc,              \* pc[c]: where handleConn(conn c) stands
    newId,           \* newId[c]: what genUserID returned to handleConn(c), 0 before
    user,            \* user[c]: user.ID of the User handleConn(c) built, 0 before
    scanned,         \* scanned[c]: lines input.Scan() has returned to handleConn(c)
    messageChannel,  \* the buffered channel's queue
    users,           \* broadcaster's map, as the set of its keys
    hubPc,           \* where broadcaster stands: "select", "range" (in the loop,
                     \* between sends), "send" (blocked in a send), "close" (in
                     \* the leaving case, before a close that will panic)
    hubMsg,          \* msg of the case being run
    hubSent,         \* hubSent[c]: sends to c completed by the running range loop
    hubCur,          \* the user whose full channel the loop's send waits on, or
                     \* the user of the leaving case being run, else 0
    outbox,          \* outbox[c]: queue of user.MessageChannel
    closed,          \* closed[c]: user.MessageChannel has been closed
    wpc,             \* wpc[c]: sendMessage(conn c, ch): "none", "range" (at the
                     \* receive), "write" (in fmt.Fprintln), "done"
    wmsg,            \* wmsg[c]: msg of sendMessage's loop while it is in
                     \* fmt.Fprintln, else NoMsg
    written,         \* written[c]: the Fprintln calls on conn c that have
                     \* returned, in order
    panicked         \* "" while the process runs, else the panic that ended it,
                     \* with the goroutine that raised it

workerVars == <<nextId, idCounter, pc, newId, user, scanned>>
hubVars == <<users, hubPc, hubMsg, hubSent, hubCur>>
writerVars == <<wpc, wmsg, written>>
vars == <<clients, peers, nextId, idCounter, pc, newId, user, scanned, messageChannel, users, hubPc,
          hubMsg, hubSent, hubCur, outbox, closed, wpc, wmsg, written, panicked>>

NoMsg == <<"", 0, 0>>

WelcomeMsg(id) == <<"welcome", id, 0>>
EnterMsg(id) == <<"enter", id, 0>>
LineMsg(id, k) == <<"line", id, k>>
LeftMsg(id) == <<"left", id, 0>>

Running == panicked = ""

\* What the peers of a run do: those of talk send n lines all together,
\* those of stay never end their stream, those of late connect once the
\* lines are sent.
PeerPlan(n, talk, stay, late) == [lines |-> n, talk |-> talk, stay |-> stay, late |-> late]

\* The runs explored, as <<clients, peers>>: one talkative client alone, or
\* several clients with few lines.
Plans ==
    {<<1, PeerPlan(MaxLinesAlone, Conns, {}, {})>>, <<MaxConns, PeerPlan(MaxLines, Conns, {}, {})>>}

\* The same with silent clients where there are several.
QuietPlans ==
    {<<1, PeerPlan(MaxLinesAlone, Conns, {}, {})>>, <<MaxConns, PeerPlan(0, Conns, {}, {})>>}

\* One talkative client alone, or a talkative client that does not go
\* together with silent latecomers that come and go.
CrowdPlans ==
    {<<1, PeerPlan(MaxLinesAlone, Conns, {}, {})>>,
     <<MaxConns, PeerPlan(MaxLinesCrowd, {1}, {1}, Conns \ {1})>>}

InitWith(plans) ==
    /\ \E plan \in plans : clients = plan[1] /\ peers = plan[2]
    /\ nextId = 0
    /\ idCounter = 0
    /\ pc = [c \in Conns |-> "idle"]
    /\ newId = [c \in Conns |-> 0]
    /\ user = [c \in Conns |-> 0]
    /\ scanned = [c \in Conns |-> 0]
    /\ messageChannel = <<>>
    /\ users = {}
    /\ hubPc = "select"
    /\ hubMsg = NoMsg
    /\ hubSent = [c \in Conns |-> 0]
    /\ hubCur = 0
    /\ outbox = [c \in Conns |-> <<>>]
    /\ closed = [c \in Conns |-> FALSE]
    /\ wpc = [c \in Conns |-> "none"]
    /\ wmsg = [c \in Conns |-> NoMsg]
    /\ written = [c \in Conns |-> <<>>]
    /\ panicked = ""

Init == InitWith(Plans)

----
\* main: listener.Accept() returns the next connection; go handleConn(conn).
\* The plan of the run says which peers connect only once the lines are sent.
Accept(c) ==
    /\ Running
    /\ pc[c] = "idle"
    /\ c <= clients
    /\ \A d \in Conns : d < c => pc[d] # "idle"
    /\ c \in peers.late => Total(scanned, MaxConns) = peers.lines
    /\ pc' = [pc EXCEPT ![c] = "genLock"]
    /\ UNCHANGED <<clients, peers, nextId, idCounter, user, newId, scanned, messageChannel, hubVars,
                   outbox, closed, writerVars, panicked>>

\* main: listener.Accept() returns an error; log.Panicln(err) panics in
\* main and, with no recover, ends the process and every goroutine in it
\* (the continue after it is never reached).
AcceptError ==
    /\ Running
    /\ panicked' = "main: accept error"
    /\ UNCHANGED <<clients, peers, workerVars, messageChannel, hubVars, outbox, closed,
                   writerVars>>

----
\* genUserID: idCounter.Lock()
\* Faulty variant: the lock is taken without waiting for it.
GenLockNoMutex(c) ==
    /\ Running
    /\ pc[c] = "genLock"
    /\ idCounter' = c
    /\ pc' = [pc EXCEPT ![c] = "genInc"]
    /\ UNCHANGED <<clients, peers, nextId, user, newId, scanned, messageChannel, hubVars, outbox,
                   closed, writerVars, panicked>>

\* genUserID: idCounter.Lock()
GenLock(c) ==
    /\ Running
    /\ pc[c] = "genLock"
    /\ idCounter = 0
    /\ idCounter' = c
    /\ pc' = [pc EXCEPT ![c] = "genInc"]
    /\ UNCHANGED <<clients, peers, nextId, user, newId, scanned, messageChannel, hubVars, outbox,
                   closed, writerVars, panicked>>

\* genUserID: nextId++
GenInc(c) ==
    /\ Running
    /\ pc[c] = "genInc"
    /\ nextId' = nextId + 1
    /\ pc' = [pc EXCEPT ![c] = "genRet"]
    /\ UNCHANGED <<clients, peers, idCounter, user, newId, scanned, messageChannel, hubVars, outbox,
                   closed, writerVars, panicked>>

\* genUserID: return nextId, then the deferred idCounter.Unlock().
GenReturn(c) ==
    /\ Running
    /\ pc[c] = "genRet"
    /\ newId' = [newId EXCEPT ![c] = nextId]
    /\ idCounter' = 0
    /\ pc' = [pc EXCEPT ![c] = "newUser"]
    /\ UNCHANGED <<clients, peers, nextId, user, scanned, messageChannel, hubVars, outbox,
                   closed, writerVars, panicked>>

\* handleConn: the User is built, with what genUserID returned as its ID
\* and a new MessageChannel, and go sendMessage(conn, user.MessageChannel)
\* starts.
NewUser(c) ==
    /\ Running
    /\ pc[c] = "newUser"
    /\ user' = [user EXCEPT ![c] = newId[c]]
    /\ wpc' = [wpc EXCEPT ![c] = "range"]
    /\ pc' = [pc EXCEPT ![c] = "welcome"]
    /\ UNCHANGED <<clients, peers, nextId, idCounter, newId, scanned, messageChannel, hubVars,
                   outbox, closed, wmsg, written, panicked>>

----
\* handleConn: user.MessageChannel <- welcome.  A send on a closed channel
\* panics; a send on a full one blocks.
\* Faulty variant: the welcome goes through messageChannel.
WelcomeViaHub(c) ==
    /\ Running
    /\ pc[c] = "welcome"
    /\ Len(messageChannel) < MessageChannelCap
    /\ messageChannel' = Append(messageChannel, WelcomeMsg(user[c]))
    /\ pc' = [pc EXCEPT ![c] = "announce"]
    /\ UNCHANGED <<clients, peers, nextId, idCounter, user, newId, scanned, hubVars, outbox,
                   closed, writerVars, panicked>>

\* handleConn: user.MessageChannel <- welcome
Welcome(c) ==
    /\ Running
    /\ pc[c] = "welcome"
    /\ IF closed[c]
       THEN /\ panicked' = "handleConn: send on closed channel"
            /\ UNCHANGED <<pc, outbox>>
       ELSE /\ Len(outbox[c]) < UserChannelCap
            /\ outbox' = [outbox EXCEPT ![c] = Append(@, WelcomeMsg(user[c]))]
            /\ pc' = [pc EXCEPT ![c] = "announce"]
            /\ UNCHANGED panicked
    /\ UNCHANGED <<clients, peers, nextId, idCounter, user, newId, scanned, messageChannel, hubVars,
                   closed, writerVars>>

\* handleConn: messageChannel <- "user:'ID' has enter"
Announce(c) ==
    /\ Running
    /\ pc[c] = "announce"
    /\ Len(messageChannel) < MessageChannelCap
    /\ messageChannel' = Append(messageChannel, EnterMsg(user[c]))
    /\ pc' = [pc EXCEPT ![c] = "enter"]
    /\ UNCHANGED <<clients, peers, nextId, idCounter, user, newId, scanned, hubVars, outbox, closed,
                   writerVars, panicked>>

\* handleConn: input.Scan() returns true with the peer's next line, and
\* messageChannel <- Itoa(user.ID) + ": " + input.Text() follows; with the
\* buffer full the send blocks, the line in hand.  The plan of the run says
\* which peers send lines, and how many.
ScanLine(c) ==
    /\ Running
    /\ pc[c] = "scan"
    /\ c \in peers.talk
    /\ Total(scanned, MaxConns) < peers.lines
    /\ scanned' = [scanned EXCEPT ![c] = @ + 1]
    /\ IF Len(messageChannel) < MessageChannelCap
       THEN /\ messageChannel' = Append(messageChannel, LineMsg(user[c], scanned[c] + 1))
            /\ UNCHANGED pc
       ELSE /\ pc' = [pc EXCEPT ![c] = "send"]
            /\ UNCHANGED messageChannel
    /\ UNCHANGED <<clients, peers, nextId, idCounter, user, newId, hubVars, outbox, closed,
                   writerVars,
                   panicked>>

\* handleConn: input.Scan() returns false, at the end of the stream or on a
\* read error (which is only logged).
\* Faulty variant: handleConn closes its own channel.
ScanEndClosing(c) ==
    /\ Running
    /\ pc[c] = "scan"
    /\ pc' = [pc EXCEPT ![c] = "leave"]
    /\ closed' = [closed EXCEPT ![c] = TRUE]
    /\ UNCHANGED <<clients, peers, nextId, idCounter, user, newId, scanned, messageChannel, hubVars,
                   outbox, writerVars, panicked>>

\* Faulty variant: handleConn submits the departure announcement first.
ScanEndAnnouncing(c) ==
    /\ Running
    /\ pc[c] = "scan"
    /\ Len(messageChannel) < MessageChannelCap
    /\ messageChannel' = Append(messageChannel, LeftMsg(user[c]))
    /\ pc' = [pc EXCEPT ![c] = "leave"]
    /\ UNCHANGED <<clients, peers, nextId, idCounter, user, newId, scanned, hubVars, outbox, closed,
                   writerVars, panicked>>

\* handleConn: input.Scan() returns false (not in a run whose plan has the
\* peer stay)
ScanEnd(c) ==
    /\ Running
    /\ pc[c] = "scan"
    /\ c \notin peers.stay
    /\ pc' = [pc EXCEPT ![c] = "leave"]
    /\ UNCHANGED <<clients, peers, nextId, idCounter, user, newId, scanned, messageChannel, hubVars,
                   outbox, closed, writerVars, panicked>>

\* handleConn: the blocked messageChannel <- line completes.
SendLine(c) ==
    /\ Running
    /\ pc[c] = "send"
    /\ Len(messageChannel) < MessageChannelCap
    /\ messageChannel' = Append(messageChannel, LineMsg(user[c], scanned[c]))
    /\ pc' = [pc EXCEPT ![c] = "scan"]
    /\ UNCHANGED <<clients, peers, nextId, idCounter, user, newId, scanned, hubVars, outbox, closed,
                   writerVars, panicked>>

\* handleConn: messageChannel <- "user:'ID' has left"; return; the deferred
\* conn.Close().
AnnounceLeft(c) ==
    /\ Running
    /\ pc[c] = "left"
    /\ Len(messageChannel) < MessageChannelCap
    /\ messageChannel' = Append(messageChannel, LeftMsg(user[c]))
    /\ pc' = [pc EXCEPT ![c] = "done"]
    /\ UNCHANGED <<clients, peers, nextId, idCounter, user, newId, scanned, hubVars, outbox, closed,
                   writerVars, panicked>>

----
\* broadcaster: case user := <-enteringChannel, meeting handleConn's
\* enteringChannel <- user (the channel is unbuffered).
\* Faulty variants: the user is not put into the map; the user is greeted
\* through its MessageChannel.
HubEnterNoInsert(c) ==
    /\ Running
    /\ hubPc = "select"
    /\ pc[c] = "enter"
    /\ pc' = [pc EXCEPT ![c] = "scan"]
    /\ UNCHANGED <<clients, peers, nextId, idCounter, user, newId, scanned, messageChannel, hubVars,
                   outbox, closed, writerVars, panicked>>

HubEnterGreeting(c) ==
    /\ Running
    /\ hubPc = "select"
    /\ pc[c] = "enter"
    /\ Len(outbox[c]) < UserChannelCap
    /\ users' = users \cup {c}
    /\ outbox' = [outbox EXCEPT ![c] = Append(@, WelcomeMsg(user[c]))]
    /\ pc' = [pc EXCEPT ![c] = "scan"]
    /\ UNCHANGED <<clients, peers, nextId, idCounter, user, newId, scanned, messageChannel, hubPc,
                   hubMsg, hubSent, hubCur, closed, writerVars, panicked>>

\* users[user] = struct{}{}
HubEnter(c) ==
    /\ Running
    /\ hubPc = "select"
    /\ pc[c] = "enter"
    /\ users' = users \cup {c}
    /\ pc' = [pc EXCEPT ![c] = "scan"]
    /\ UNCHANGED <<clients, peers, nextId, idCounter, user, newId, scanned, messageChannel, hubPc,
                   hubMsg, hubSent, hubCur, outbox, closed, writerVars, panicked>>

\* broadcaster's leaving case for the user c: delete(users, user);
\* close(user.MessageChannel).  Closing a closed channel panics.
\* Faulty variants: the map is emptied; the delete is missing.
LeaveCaseClearAll(c) ==
    /\ users' = {}
    /\ IF closed[c]
       THEN /\ panicked' = "broadcaster: close of closed channel"
            /\ UNCHANGED closed
       ELSE /\ closed' = [closed EXCEPT ![c] = TRUE]
            /\ UNCHANGED panicked

LeaveCaseKeepUser(c) ==
    /\ users' = users
    /\ IF closed[c]
       THEN /\ panicked' = "broadcaster: close of closed channel"
            /\ UNCHANGED closed
       ELSE /\ closed' = [closed EXCEPT ![c] = TRUE]
            /\ UNCHANGED panicked

\* delete(users, user); close(user.MessageChannel)
LeaveCase(c) ==
    /\ users' = users \ {c}
    /\ IF closed[c]
       THEN /\ panicked' = "broadcaster: close of closed channel"
            /\ UNCHANGED closed
       ELSE /\ closed' = [closed EXCEPT ![c] = TRUE]
            /\ UNCHANGED panicked

\* broadcaster: case user := <-leavingChannel, meeting handleConn's
\* leavingChannel <- user, which lets handleConn go on.  The delete and the
\* close that follow are taken into this step when the channel is open
\* (nothing handleConn does next depends on them); when the channel is
\* closed already they are a step of their own, since the panic of that
\* close stops a handleConn that may by then have gone on.
HubLeave(c) ==
    /\ Running
    /\ hubPc = "select"
    /\ pc[c] = "leave"
    /\ pc' = [pc EXCEPT ![c] = "left"]
    /\ IF closed[c]
       THEN /\ hubPc' = "close"
            /\ hubCur' = c
            /\ UNCHANGED <<users, closed, panicked>>
       ELSE /\ LeaveCase(c)
            /\ UNCHANGED <<hubPc, hubCur>>
    /\ UNCHANGED <<clients, peers, nextId, idCounter, user, newId, scanned, messageChannel, hubMsg,
                   hubSent, outbox, writerVars>>

\* broadcaster: delete(users, user); close(user.MessageChannel) of a
\* leaving case that received a user whose channel is closed already: the
\* close panics.
HubLeaveClose ==
    /\ Running
    /\ hubPc = "close"
    /\ LeaveCase(hubCur)
    /\ UNCHANGED <<clients, peers, workerVars, messageChannel, hubPc, hubMsg, hubSent, hubCur,
                   outbox, writerVars>>

\* broadcaster: case msg := <-messageChannel; the range loop starts.
\* Faulty variant: the newest buffered msg is received.
HubMessageNewestFirst ==
    /\ Running
    /\ hubPc = "select"
    /\ messageChannel # <<>>
    /\ hubMsg' = messageChannel[Len(messageChannel)]
    /\ messageChannel' = SubSeq(messageChannel, 1, Len(messageChannel) - 1)
    /\ hubSent' = [c \in Conns |-> 0]
    /\ hubPc' = "range"
    /\ UNCHANGED <<clients, peers, workerVars, users, hubCur, outbox, closed, writerVars, panicked>>

\* case msg := <-messageChannel
HubMessage ==
    /\ Running
    /\ hubPc = "select"
    /\ messageChannel # <<>>
    /\ hubMsg' = Head(messageChannel)
    /\ messageChannel' = Tail(messageChannel)
    /\ hubSent' = [c \in Conns |-> 0]
    /\ hubPc' = "range"
    /\ UNCHANGED <<clients, peers, workerVars, users, hubCur, outbox, closed, writerVars, panicked>>

\* The users the running range loop has still to visit.
\* Faulty variant: the sender of msg is skipped.
RangeLeftOthers == {c \in users : hubSent[c] = 0 /\ user[c] # hubMsg[2]}

RangeLeft == {c \in users : hubSent[c] = 0}

\* user.MessageChannel <- msg completes for the user c of the loop body.
Deliver(c) ==
    /\ outbox' = [outbox EXCEPT ![c] = Append(@, hubMsg)]
    /\ hubSent' = [hubSent EXCEPT ![c] = @ + 1]
    /\ hubCur' = 0
    /\ hubPc' = "range"
    /\ UNCHANGED panicked

\* Faulty variant: a send that finds the buffer full is given up, the msg
\* dropped for that user.
HubRangeDropping(c) ==
    /\ Running
    /\ hubPc = "range"
    /\ c \in RangeLeft
    /\ IF closed[c]
       THEN /\ panicked' = "broadcaster: send on closed channel"
            /\ UNCHANGED <<outbox, hubSent, hubCur, hubPc>>
       ELSE IF Len(outbox[c]) < UserChannelCap
       THEN Deliver(c)
       ELSE /\ hubSent' = [hubSent EXCEPT ![c] = @ + 1]
            /\ UNCHANGED <<outbox, hubCur, hubPc, panicked>>
    /\ UNCHANGED <<clients, peers, workerVars, messageChannel, users, hubMsg, closed, writerVars>>

\* broadcaster: for user := range users reaches its next key c (Go fixes no
\* order) and runs user.MessageChannel <- msg: a panic on a closed channel,
\* the send with room in the buffer, else the loop blocks in the send.
HubRange(c) ==
    /\ Running
    /\ hubPc = "range"
    /\ c \in RangeLeft
    /\ IF closed[c]
       THEN /\ panicked' = "broadcaster: send on closed channel"
            /\ UNCHANGED <<outbox, hubSent, hubCur, hubPc>>
       ELSE IF Len(outbox[c]) < UserChannelCap
       THEN Deliver(c)
       ELSE /\ hubCur' = c
            /\ hubPc' = "send"
            /\ UNCHANGED <<outbox, hubSent, panicked>>
    /\ UNCHANGED <<clients, peers, workerVars, messageChannel, users, hubMsg, closed, writerVars>>

\* broadcaster: the blocked user.MessageChannel <- msg completes.
\* Faulty variant: the send does not wait for room in the buffer.
HubSendUnguarded ==
    /\ Running
    /\ hubPc = "send"
    /\ Deliver(hubCur)
    /\ UNCHANGED <<clients, peers, workerVars, messageChannel, users, hubMsg, closed, writerVars>>

\* the send completes once the buffer has room
HubSend ==
    /\ Running
    /\ hubPc = "send"
    /\ Len(outbox[hubCur]) < UserChannelCap
    /\ Deliver(hubCur)
    /\ UNCHANGED <<clients, peers, workerVars, messageChannel, users, hubMsg, closed, writerVars>>

\* broadcaster: the range loop has visited every key; back to the select.
HubRangeEnd ==
    /\ Running
    /\ hubPc = "range"
    /\ RangeLeft = {}
    /\ hubPc' = "select"
    /\ hubMsg' = NoMsg
    /\ hubSent' = [c \in Conns |-> 0]
    /\ UNCHANGED <<clients, peers, workerVars, messageChannel, users, hubCur, outbox, closed,
                   writerVars, panicked>>

----
\* sendMessage: for msg := range ch receives the next msg (a closed channel
\* still yields what it buffers); the slot is free from here on.
WriterReceive(c) ==
    /\ Running
    /\ wpc[c] = "range"
    /\ outbox[c] # <<>>
    /\ wmsg' = [wmsg EXCEPT ![c] = Head(outbox[c])]
    /\ outbox' = [outbox EXCEPT ![c] = Tail(@)]
    /\ wpc' = [wpc EXCEPT ![c] = "write"]
    /\ UNCHANGED <<clients, peers, workerVars, messageChannel, hubVars, closed, written,
                   panicked>>

\* sendMessage: fmt.Fprintln(conn, msg) returns.  The write is made at this
\* step: it fails, its error dropped, if handleConn has by now returned
\* and closed conn (pc[c] = "done").  With a peer that does not read the
\* step may never come while conn is open.
WriterWrite(c) ==
    /\ Running
    /\ wpc[c] = "write"
    /\ written' = [written EXCEPT ![c] = Append(@, wmsg[c])]
    /\ wmsg' = [wmsg EXCEPT ![c] = NoMsg]
    /\ wpc' = [wpc EXCEPT ![c] = "range"]
    /\ UNCHANGED <<clients, peers, workerVars, messageChannel, hubVars, outbox, closed,
                   panicked>>

\* sendMessage: the range loop ends once ch is closed and empty; return.
WriterEnd(c) ==
    /\ Running
    /\ wpc[c] = "range"
    /\ outbox[c] = <<>>
    /\ closed[c]
    /\ wpc' = [wpc EXCEPT ![c] = "done"]
    /\ UNCHANGED <<clients, peers, workerVars, messageChannel, hubVars, outbox, closed, wmsg,
                   written, panicked>>

----
Next ==
    \/ \E c \in Conns : Accept(c)
    \/ AcceptError
    \/ \E c \in Conns : GenLock(c)
    \/ \E c \in Conns : GenInc(c)
    \/ \E c \in Conns : GenReturn(c)
    \/ \E c \in Conns : NewUser(c)
    \/ \E c \in Conns : Welcome(c)
    \/ \E c \in Conns : Announce(c)
    \/ \E c \in Conns : ScanLine(c)
    \/ \E c \in Conns : ScanEnd(c)
    \/ \E c \in Conns : SendLine(c)
    \/ \E c \in Conns : AnnounceLeft(c)
    \/ \E c \in Conns : HubEnter(c)
    \/ \E c \in Conns : HubLeave(c)
    \/ HubMessage
    \/ \E c \in Conns : HubRange(c)
    \/ HubRangeEnd
    \/ HubSend
    \/ \E c \in Conns : WriterReceive(c)
    \/ \E c \in Conns : WriterWrite(c)
    \/ \E c \in Conns : WriterEnd(c)

Spec == Init /\ [][Next]_vars

\* The same program in the runs of CrowdPlans.
SpecCrowd == InitWith(CrowdPlans) /\ [][Next]_vars

----
\* broadcaster: case user := <-leavingChannel for a User that is not in the
\* map, sent by something else than that user's handleConn at its line 130
\* (handleConn itself never does this: the event is the caller's).  After
\* it a handleConn can meet broadcaster with its channel closed already,
\* which is where HubLeaveClose runs.
StrayLeave(c) ==
    /\ Running
    /\ hubPc = "select"
    /\ user[c] # 0
    /\ c \notin users
    /\ LeaveCase(c)
    /\ UNCHANGED <<clients, peers, workerVars, messageChannel, hubPc, hubMsg, hubSent,
                   hubCur, outbox, writerVars>>

NextStray ==
    \/ Next
    \/ \E c \in Conns : StrayLeave(c)
    \/ HubLeaveClose

SpecStray == Init /\ [][NextStray]_vars

----
\* Fair scheduling of the goroutines: a goroutine that can take its next
\* step takes it, a select with a ready case runs one, a blocked channel
\* operation completes once its channel allows it.  The peers decide when
\* clients connect, send lines and end their streams (Accept, ScanLine,
\* ScanEnd), whether an Accept fails (AcceptError), and whether
\* fmt.Fprintln's write to an open connection returns (WriterWrite); a
\* write to a connection handleConn has closed returns at once, with an
\* error.
Fairness ==
    /\ \A c \in Conns :
        /\ WF_vars(GenLock(c))
        /\ WF_vars(GenInc(c))
        /\ WF_vars(GenReturn(c))
        /\ WF_vars(NewUser(c))
        /\ WF_vars(Welcome(c))
        /\ WF_vars(Announce(c))
        /\ WF_vars(SendLine(c))
        /\ WF_vars(AnnounceLeft(c))
        /\ WF_vars(HubEnter(c))
        /\ WF_vars(HubLeave(c))
        /\ WF_vars(WriterReceive(c))
        /\ WF_vars(WriterEnd(c))
        /\ WF_vars(pc[c] = "done" /\ WriterWrite(c))
    /\ WF_vars(HubMessage)
    /\ WF_vars(\E c \in Conns : HubRange(c))
    /\ WF_vars(HubSend)
    /\ WF_vars(HubRangeEnd)

FairSpec == InitWith(QuietPlans) /\ [][Next]_vars /\ Fairness

\* Every sendMessage can always complete its write: fmt.Fprintln returns.
WritesComplete == \A c \in Conns : WF_vars(WriterWrite(c))

----
(***************************************************************************)
(* Vocabulary of the properties.                                           *)
(***************************************************************************)

\* Every message ever enqueued into user c's MessageChannel, in enqueue
\* order: what sendMessage has taken out of it (the one it is writing
\* last), then what the channel still buffers.
Hist(c) == written[c] \o (IF wmsg[c] = NoMsg THEN <<>> ELSE <<wmsg[c]>>) \o outbox[c]

RECURSIVE Count(_, _)
Count(m, q) == IF q = <<>> THEN 0
               ELSE (IF Head(q) = m THEN 1 ELSE 0) + Count(m, Tail(q))

Pending(m) == \E i \in 1..Len(messageChannel) : messageChannel[i] = m

\* broadcaster has run its entering case, and its leaving case, for c.
JoinProcessed(c) == pc[c] \in {"scan", "send", "leave", "left", "done"}
LeaveProcessed(c) == pc[c] \in {"left", "done"}

\* How far handleConn has come for a connection: before, at and after its
\* send on enteringChannel, at and after its send on leavingChannel.
Stage(p) == CASE p \in {"idle", "genLock", "genInc", "genRet", "newUser", "welcome",
                         "announce"} -> 0
              [] p = "enter" -> 1
              [] p \in {"scan", "send"} -> 2
              [] p = "leave" -> 3
              [] OTHER -> 4

\* handleConn has not yet returned and run its deferred conn.Close(): a
\* write to conn can still land.
ConnOpen(c) == pc[c] # "done"

\* The messages that travel through messageChannel.
IsBroadcast(m) == m[1] \in {"enter", "line", "left"}

\* Every string a handleConn can submit to messageChannel.
Broadcasts ==
    {EnterMsg(i) : i \in Conns} \cup {LeftMsg(i) : i \in Conns}
        \cup {LineMsg(i, k) : i \in Conns, k \in 1..(MaxLines + MaxLinesAlone)}

\* broadcaster's range loop for m has visited every user of the map: m is,
\* once, in the MessageChannel history of each of them and of no one else.
FannedOut(m) ==
    /\ hubMsg = m
    /\ hubPc = "range"
    /\ RangeLeft = {}
    /\ \A c \in Conns : Count(m, Hist(c)) = (IF c \in users THEN 1 ELSE 0)

\* m is on its way: buffered in messageChannel, or the msg of a range loop
\* that has not yet visited every user.
InFlight(m) == Pending(m) \/ (hubMsg = m /\ ~FannedOut(m))

\* Where a broadcast stands among those its handleConn submits: the arrival
\* announcement, the lines in the order read, the departure announcement.
Rank(m) == CASE m[1] = "enter" -> 0
             [] m[1] = "line" -> m[3]
             [] OTHER -> MaxLines + MaxLinesAlone + 1

----
\* C1: no user ever has, in its own MessageChannel, the arrival announcement
\* its own handleConn submitted.
C1_NoOwnArrival ==
    \A c \in Conns : user[c] # 0 => Count(EnterMsg(user[c]), Hist(c)) = 0

\* C2: when the range loop of a broadcast ends, msg has been enqueued exactly
\* once into the MessageChannel of every user in the map and into no other.
C2_FanOutExact ==
    [][(hubPc = "range" /\ hubPc' = "select") =>
          \A c \in Conns :
              Count(hubMsg, Hist(c)) = (IF c \in users THEN 1 ELSE 0)]_vars

C2_Witness ==
    /\ hubPc = "range"
    /\ users = Conns
    /\ hubMsg[1] = "line"
    /\ \A c \in Conns : hubSent[c] = 1

\* C3: once broadcaster has closed a user's MessageChannel (its leaving
\* case), no step enqueues into that channel, and no send on a closed channel
\* is ever attempted.
C3_NoSendAfterLeave ==
    [][\A c \in Conns :
          closed[c] => /\ Hist(c)' = Hist(c)
                       /\ panicked' \notin {"handleConn: send on closed channel",
                                           "broadcaster: send on closed channel"}]_vars

C3_Witness ==
    \E c, d \in Conns :
        /\ closed[c]
        /\ d \in users
        /\ hubPc = "range"
        /\ hubSent[d] = 1
        /\ hubMsg = LeftMsg(user[c])

----
\* C4: broadcaster runs the events of one handleConn in the order that
\* handleConn submitted them: the arrival announcement before the entering
\* case, the entering case before the lines, the lines before the leaving
\* case, the leaving case before the departure announcement.  Stated on what
\* is still waiting in messageChannel when a case has run.
C4_WorkerOrder ==
    \A c \in Conns : user[c] # 0 =>
        /\ JoinProcessed(c) => ~Pending(EnterMsg(user[c]))
        /\ \A k \in 1..scanned[c] :
               /\ (Pending(LineMsg(user[c], k)) \/ hubMsg = LineMsg(user[c], k))
                      => JoinProcessed(c)
               /\ LeaveProcessed(c) => ~Pending(LineMsg(user[c], k))
        /\ (Pending(LeftMsg(user[c])) \/ hubMsg = LeftMsg(user[c]))
               => LeaveProcessed(c)

\* C5: in every user's MessageChannel, and so in what is written to its
\* connection, two broadcasts of one handleConn stand in the order that
\* handleConn submitted them.
C5_SenderOrder ==
    \A c \in Conns : \A i, j \in 1..Len(Hist(c)) :
        (/\ i < j
         /\ IsBroadcast(Hist(c)[i])
         /\ IsBroadcast(Hist(c)[j])
         /\ Hist(c)[i][2] = Hist(c)[j][2])
            => Rank(Hist(c)[i]) < Rank(Hist(c)[j])

C5_Witness ==
    \E c, d \in Conns :
        /\ c # d
        /\ user[c] # 0
        /\ \E i, j \in 1..Len(written[d]) :
               /\ i < j
               /\ written[d][i] = LineMsg(user[c], 1)
               /\ written[d][j] = LeftMsg(user[c])

\* C6: the identifiers genUserID has returned so far are exactly 1..n for
\* the n calls that have returned: pairwise distinct and without gaps, so
\* that each call returns more than every call that returned before it.
C6_UniqueIds ==
    LET returned == {c \in Conns : newId[c] # 0}
    IN /\ {newId[c] : c \in returned} = 1..Cardinality(returned)
       /\ nextId >= Cardinality(returned)

C6_Witness ==
    /\ user[1] = MaxConns
    /\ \A c \in Conns : user[c] # 0
    /\ nextId = MaxConns

\* C7: the first message ever enqueued into a user's MessageChannel is its
\* own welcome; it is there before broadcaster runs the entering case for the
\* user; every later message is a broadcast, and a step that enqueues
\* anything else than the msg of broadcaster's range loop enqueues the
\* welcome, first.
C7_WelcomeFirst ==
    /\ [](\A c \in Conns :
            /\ JoinProcessed(c) => Hist(c) # <<>>
            /\ Hist(c) # <<>> => Hist(c)[1] = WelcomeMsg(user[c])
            /\ \A i \in 2..Len(Hist(c)) : IsBroadcast(Hist(c)[i]))
    /\ [][\A c \in Conns :
            (Hist(c)' # Hist(c) /\ hubSent'[c] = hubSent[c])
                => Hist(c)' = <<WelcomeMsg(user[c])>>]_vars

C7_Witness ==
    \E c \in Conns :
        /\ c \in users
        /\ Len(written[c]) >= 2
        /\ written[c][1] = WelcomeMsg(user[c])

----
\* C8: after a leaving event for a user that is not in the map (one that has
\* not joined, or one that already left), broadcaster does not crash: neither
\* its close in the leaving case nor a send of a later range loop panics.
C8_StrayLeaveHarmless ==
    panicked \notin {"broadcaster: close of closed channel",
                     "broadcaster: send on closed channel"}

\* C9: under fair scheduling, a user whose entering case has run
\* and whose stream has ended has its leaving case run, its MessageChannel
\* closed and its sendMessage returned.
C9_Cleanup ==
    \A c \in Conns :
        (pc[c] = "leave") ~> (LeaveProcessed(c) /\ closed[c] /\ wpc[c] = "done")

\* C10: a user's MessageChannel is closed at most once, only by broadcaster
\* in the leaving case it runs for that user's handleConn, in the step that
\* deletes the user from the map.
C10_CloseOnce ==
    [][/\ panicked' # "broadcaster: close of closed channel"
       /\ \A c \in Conns :
            closed'[c] # closed[c] =>
                /\ ~closed[c]
                /\ hubPc = "select" /\ hubPc' = "select"
                /\ pc[c] = "leave" /\ pc'[c] = "left"
                /\ c \in users /\ c \notin users']_vars

C10_Witness ==
    \E c \in Conns : closed[c] /\ pc[c] = "done" /\ wpc[c] = "done"

----
\* C11: broadcaster runs the leaving case of a handleConn before it receives
\* that handleConn's departure announcement: while the announcement waits in
\* messageChannel or is the msg of the range loop, the user is out of the
\* map; the announcement is never enqueued into the user's own
\* MessageChannel; and when its range loop ends it has been enqueued into
\* the MessageChannel of every user in the map.
C11_LeaveBeforeDeparture ==
    /\ [](\A c \in Conns : user[c] # 0 =>
            /\ (Pending(LeftMsg(user[c])) \/ hubMsg = LeftMsg(user[c]))
                   => (LeaveProcessed(c) /\ c \notin users /\ closed[c])
            /\ Count(LeftMsg(user[c]), Hist(c)) = 0)
    /\ [][(hubPc = "range" /\ hubPc' = "select" /\ hubMsg[1] = "left") =>
            \A d \in users : Count(hubMsg, Hist(d)) = 1]_vars

C11_Witness ==
    \E c, d \in Conns :
        /\ pc[c] = "done"
        /\ d \in users
        /\ hubPc = "select"
        /\ ~Pending(LeftMsg(user[c]))
        /\ Count(LeftMsg(user[c]), Hist(d)) = 1
        /\ Count(LeftMsg(user[c]), Hist(c)) = 0
        /\ Len(Hist(c)) >= 2

----
\* C12: while broadcaster is blocked in user.MessageChannel <- msg on a full
\* buffer (8) of a user in the map, no step runs its entering case, its
\* leaving case or a receive from messageChannel, and the map, the msg in
\* hand and the closed channels stay as they are; the send completes only
\* after that user's sendMessage has taken a message out of the buffer.
C12_HeadOfLineBlocking ==
    /\ [](hubPc = "send" =>
            /\ hubCur \in users
            /\ ~closed[hubCur]
            /\ IsBroadcast(hubMsg))
    /\ [][hubPc # "send" /\ hubPc' = "send" =>
            Len(outbox[hubCur']) = UserChannelCap]_vars
    /\ [][hubPc = "send" =>
            /\ users' = users
            /\ closed' = closed
            /\ hubMsg' = hubMsg
            /\ Len(messageChannel') >= Len(messageChannel)
            /\ \A c \in Conns :
                   /\ JoinProcessed(c)' = JoinProcessed(c)
                   /\ LeaveProcessed(c)' = LeaveProcessed(c)
            /\ Len(outbox[hubCur]) = UserChannelCap =>
                   /\ hubPc' = "send" /\ hubCur' = hubCur /\ hubSent' = hubSent
                   /\ \/ outbox'[hubCur] = outbox[hubCur]
                      \/ /\ outbox'[hubCur] = Tail(outbox[hubCur])
                         /\ wpc[hubCur] = "range"
                         /\ wmsg'[hubCur] = Head(outbox[hubCur])
            /\ hubPc' # "send" =>
                   /\ Len(outbox[hubCur]) < UserChannelCap
                   /\ outbox'[hubCur] = Append(outbox[hubCur], hubMsg)]_vars

\* broadcaster blocked on the full buffer of one user while another
\* handleConn waits in enteringChannel <- user and a message waits in
\* messageChannel.
C12_Witness ==
    /\ hubPc = "send"
    /\ Len(outbox[hubCur]) = UserChannelCap
    /\ \E c \in Conns \ {hubCur} : pc[c] = "enter"
    /\ messageChannel # <<>>

----
\* C13: with handleConn the only sender on enteringChannel and
\* leavingChannel, every leaving case broadcaster runs is for a user that is
\* in the map at that moment; the map changes only by the entering case
\* adding, and the leaving case deleting, the user of the handleConn that
\* sent; and since a handleConn never goes back, broadcaster runs for each
\* user at most one entering case and at most one leaving case, the
\* entering case first.
C13_LeaveOfMember ==
    /\ [][\A c \in Conns : Stage(pc'[c]) >= Stage(pc[c])]_vars
    /\ [][\A c \in Conns :
            /\ (~LeaveProcessed(c) /\ LeaveProcessed(c)') =>
                   /\ Stage(pc[c]) = 3
                   /\ c \in users /\ ~closed[c]
                   /\ users' = users \ {c}
            /\ (~JoinProcessed(c) /\ JoinProcessed(c)') =>
                   /\ Stage(pc[c]) = 1 /\ Stage(pc'[c]) = 2
                   /\ c \notin users /\ ~closed[c]
                   /\ users' = users \cup {c}
            /\ (c \in users /\ c \notin users') =>
                   (~LeaveProcessed(c) /\ LeaveProcessed(c)')
            /\ (c \notin users /\ c \in users') =>
                   (~JoinProcessed(c) /\ JoinProcessed(c)')]_vars

C13_Witness ==
    \E c, d \in Conns :
        /\ c # d
        /\ LeaveProcessed(c) /\ LeaveProcessed(d)
        /\ users = {}
        /\ closed[c] /\ closed[d]
        /\ panicked = ""

----
\* C14: sendMessage writes to the user's connection exactly what was
\* enqueued into the user's MessageChannel, in that order, each message
\* once: every message that leaves the buffer is the oldest one and is
\* written to the connection, which takes the connection open; what the
\* buffer holds when broadcaster closes it is written before sendMessage
\* returns, and sendMessage returns only with the channel closed and empty.
C14_WriterWritesAll ==
    /\ [](\A c \in Conns :
            wpc[c] = "done" => (closed[c] /\ outbox[c] = <<>> /\ wmsg[c] = NoMsg))
    /\ [][\A c \in Conns :
            /\ (wpc[c] # "done" /\ wpc'[c] = "done") =>
                   (wpc[c] = "range" /\ closed[c] /\ outbox[c] = <<>>)
            /\ Len(outbox'[c]) < Len(outbox[c]) =>
                   /\ wpc[c] = "range"
                   /\ wmsg'[c] = Head(outbox[c])
                   /\ outbox'[c] = Tail(outbox[c])
                   /\ written'[c] = written[c]
            /\ written'[c] # written[c] =>
                   /\ wpc[c] = "write"
                   /\ written'[c] = Append(written[c], wmsg[c])
                   /\ outbox'[c] = outbox[c]
                   /\ ConnOpen(c)]_vars

----
\* C15: what the three cases of broadcaster's select leave alone.  The
\* entering case adds its user to the map and touches no MessageChannel; the
\* leaving case enqueues nothing, deletes only its user and closes only that
\* user's channel; a broadcast, from the receive of msg to the end of its
\* range loop, leaves the map as it is, closes nothing, and enqueues only
\* msg.
C15_Frames ==
    /\ [][\A c \in Conns :
            (~JoinProcessed(c) /\ JoinProcessed(c)') =>
                /\ users' = users \cup {c}
                /\ outbox' = outbox /\ closed' = closed
                /\ messageChannel' = messageChannel
                /\ hubPc' = hubPc /\ hubMsg' = hubMsg /\ hubSent' = hubSent]_vars
    /\ [][\A c \in Conns :
            (~LeaveProcessed(c) /\ LeaveProcessed(c)') =>
                /\ outbox' = outbox
                /\ messageChannel' = messageChannel
                /\ \A d \in Conns \ {c} :
                       /\ (d \in users') = (d \in users)
                       /\ closed'[d] = closed[d]
                /\ hubPc' = hubPc /\ hubMsg' = hubMsg /\ hubSent' = hubSent]_vars
    /\ [][(hubPc # "select" \/ hubPc' # "select") =>
            /\ users' = users
            /\ closed' = closed
            /\ \A c \in Conns :
                   Hist(c)' # Hist(c) =>
                       \/ Hist(c)' = Append(Hist(c), hubMsg)
                       \/ Hist(c) = <<>> /\ Hist(c)' = <<WelcomeMsg(user[c])>>]_vars

C15_Witness ==
    \E c, d \in Conns :
        /\ c # d
        /\ d \in users
        /\ pc[c] = "done"
        /\ wpc[c] = "done"
        /\ hubPc = "select"
        /\ Count(EnterMsg(user[d]), Hist(c)) = 1

----
\* C16: in every state the users map holds exactly the users for which
\* broadcaster has run the entering case and not the leaving case, and the
\* MessageChannel of every user in the map is open.
C16_Roster ==
    /\ users = {c \in Conns : JoinProcessed(c) /\ ~LeaveProcessed(c)}
    /\ \A c \in users : ~closed[c]

C16_Witness ==
    \E c, d \in Conns :
        /\ LeaveProcessed(c)
        /\ closed[c]
        /\ users = {d}
        /\ ~closed[d]
        /\ Stage(pc[d]) = 2

----
\* C18: messageChannel and every user.MessageChannel never hold more than
\* their 8 messages; a send that finds its buffer full waits, and when a
\* sender gets past its send the message is in the buffer, last: no message
\* is dropped and no send on a full buffer fails.
C18_BoundedQueues ==
    /\ [](/\ Len(messageChannel) <= MessageChannelCap
          /\ \A c \in Conns : Len(outbox[c]) <= UserChannelCap)
    /\ [][/\ panicked' \in {"", "main: accept error"}
          /\ \A c \in Conns :
               /\ (pc[c] \in {"announce", "send", "left"}
                      /\ Len(messageChannel) = MessageChannelCap) => pc'[c] = pc[c]
               /\ (pc[c] = "announce" /\ pc'[c] # "announce") =>
                      messageChannel' = Append(messageChannel, EnterMsg(user[c]))
               /\ scanned'[c] # scanned[c] =>
                      \/ messageChannel' = Append(messageChannel, LineMsg(user[c], scanned'[c]))
                      \/ /\ Len(messageChannel) = MessageChannelCap
                         /\ messageChannel' = messageChannel
                         /\ pc'[c] = "send"
               /\ (pc[c] = "send" /\ pc'[c] # "send") =>
                      messageChannel' = Append(messageChannel, LineMsg(user[c], scanned[c]))
               /\ (pc[c] = "left" /\ pc'[c] # "left") =>
                      messageChannel' = Append(messageChannel, LeftMsg(user[c]))
               /\ hubSent'[c] > hubSent[c] =>
                      /\ Len(outbox[c]) < UserChannelCap
                      /\ outbox'[c] = Append(outbox[c], hubMsg)
               /\ (hubPc = "send" /\ hubCur = c /\ Len(outbox[c]) = UserChannelCap) =>
                      (hubPc' = "send" /\ hubMsg' = hubMsg)]_vars

C18_Witness ==
    \E c \in Conns :
        /\ hubPc = "send"
        /\ hubCur = c
        /\ Len(outbox[c]) = UserChannelCap
        /\ pc[c] = "send"
        /\ Len(messageChannel) = MessageChannelCap

----
\* C17: no message is lost or doubled between messageChannel and the users.
\* A message is submitted once; the only step that takes a message out of
\* messageChannel is broadcaster's receive of the oldest one, which starts
\* its range loop; no MessageChannel gets a message twice; a message stops
\* being on its way only by the step that completes its fan-out: enqueued
\* once for each user then in the map (its sender too, if in the map) and
\* for no one else; and, with fair scheduling and writes that complete, no
\* message stays on its way for ever.  Together: every message submitted
\* is eventually fanned out, once.
C17_NoBroadcastLost ==
    /\ [](/\ \A i, j \in 1..Len(messageChannel) :
                i < j => messageChannel[i] # messageChannel[j]
          /\ hubMsg # NoMsg => ~Pending(hubMsg)
          /\ \A c \in Conns : \A i, j \in 1..Len(Hist(c)) :
                i < j => Hist(c)[i] # Hist(c)[j])
    /\ [][/\ messageChannel' # messageChannel =>
               \/ /\ hubPc = "select" /\ hubPc' = "range"
                  /\ messageChannel # <<>>
                  /\ hubMsg' = Head(messageChannel)
                  /\ messageChannel' = Tail(messageChannel)
               \/ /\ messageChannel' # <<>>
                  /\ LET m == messageChannel'[Len(messageChannel')]
                     IN /\ messageChannel' = Append(messageChannel, m)
                        /\ m \in Broadcasts
                        /\ ~Pending(m) /\ hubMsg # m
                        /\ \A c \in Conns : Count(m, Hist(c)) = 0
          /\ hubMsg' # hubMsg =>
               \/ hubMsg = NoMsg /\ hubMsg' = Head(messageChannel)
               \/ FannedOut(hubMsg) /\ hubMsg' = NoMsg
          /\ \A m \in Broadcasts :
               (m = hubMsg \/ Pending(m)) =>
                   ((InFlight(m) /\ ~InFlight(m)') => FannedOut(m)')]_vars
    /\ (WritesComplete => \A m \in Broadcasts : []<>~InFlight(m))

----
\* C19: with fair scheduling and writes that complete, nobody waits for
\* broadcaster for ever.  Whenever broadcaster is blocked in a send, the
\* sendMessage of that user is running, so that a full buffer has a taker;
\* the blocked send is eventually done; and a handleConn at any of its sends to
\* broadcaster (messageChannel, with or without room, enteringChannel,
\* leavingChannel) eventually gets past it.
C19_NoDeadlock ==
    /\ [](hubPc = "send" =>
            /\ hubCur \in users
            /\ wpc[hubCur] \in {"range", "write"}
            /\ Len(outbox[hubCur]) <= UserChannelCap)
    /\ (WritesComplete =>
            /\ []<>(hubPc # "send")
            /\ []<>(hubPc = "select")
            /\ \A c \in Conns :
                   \A p \in {"announce", "enter", "send", "leave", "left"} :
                       []<>(pc[c] # p))

====
